---- MODULE Spec2Model ----
(***************************************************************************)
(* A model of loan.py: the loan projection function, the LoanProjection    *)
(* result type and the table printer.                                      *)
(*                                                                         *)
(* Decimal values are modelled as exact rationals [n, d] in lowest terms.  *)
(* The inputs are chosen inside the range where Python's Decimal           *)
(* arithmetic (28 significant digits) is exact, so every modelled run is   *)
(* a run of the code with the same numbers.  An input Decimal keeps its    *)
(* coefficient and exponent, because the validation reads the exponent.    *)
(***************************************************************************)
EXTENDS Integers, Sequences, FiniteSets, TLC

VARIABLES args, pc, err, raw, month_end_balance, monthly_interest_charged,
          projection, table

vars == <<args, pc, err, raw, month_end_balance, monthly_interest_charged,
          projection, table>>

----------------------------------------------------------------------------
(* Bounds of the model *)

MaxTerm == 3
MaxRoot == 2
MaxDigits == 15
MaxLen == 2

(* Program constants *)

DECIMAL_PLACES_IO == 2
MONTHS_IN_ONE_YEAR == 12
MonthTitleLen == 5
InterestTitleLen == 16
BalanceTitleLen == 17
SpacerLen == 3

----------------------------------------------------------------------------
(* Exact decimal arithmetic *)

Abs(x) == IF x < 0 THEN -x ELSE x

Max(a, b) == IF a >= b THEN a ELSE b

RECURSIVE GCD(_, _)
GCD(a, b) == IF b = 0 THEN a ELSE GCD(b, a % b)

RECURSIVE Pow10(_)
Pow10(k) == IF k = 0 THEN 1 ELSE 10 * Pow10(k - 1)

Norm(n, d) ==
    LET g == GCD(Abs(n), d)
    IN  [n |-> n \div g, d |-> d \div g]

RInt(i) == [n |-> i, d |-> 1]

Zero == RInt(0)
One == RInt(1)

RNeg(x) == [n |-> -x.n, d |-> x.d]

RAdd(x, y) ==
    LET g == GCD(x.d, y.d)
    IN  Norm(x.n * (y.d \div g) + y.n * (x.d \div g), x.d * (y.d \div g))

RSub(x, y) == RAdd(x, RNeg(y))

RMul(x, y) ==
    LET g1 == GCD(Abs(x.n), y.d)
        g2 == GCD(Abs(y.n), x.d)
    IN  Norm((x.n \div g1) * (y.n \div g2), (x.d \div g2) * (y.d \div g1))

RDiv(x, y) ==
    IF y.n > 0 THEN RMul(x, [n |-> y.d, d |-> y.n])
    ELSE RMul(x, [n |-> -y.d, d |-> -y.n])

RECURSIVE RPow(_, _)
RPow(x, k) == IF k = 0 THEN One ELSE RMul(RPow(x, k - 1), x)

RLess(x, y) == RSub(x, y).n < 0

RLeq(x, y) == RSub(x, y).n <= 0

(* A Decimal as the caller wrote it: coefficient and exponent. *)
Dec(c, e) == [coef |-> c, exp |-> e]

DecValue(x) ==
    IF x.exp >= 0 THEN RInt(x.coef * Pow10(x.exp))
    ELSE Norm(x.coef, Pow10(-x.exp))

(* value.quantize(Dec(10) ** -2, ROUND_HALF_EVEN) *)
round_decimal(value) ==
    LET scale == Pow10(DECIMAL_PLACES_IO)
        g     == GCD(scale, value.d)
        num   == value.n * (scale \div g)
        den   == value.d \div g
        q     == num \div den
        r2    == 2 * (num - q * den)
        cents == IF r2 > den THEN q + 1
                 ELSE IF r2 < den THEN q
                 ELSE IF q % 2 = 0 THEN q ELSE q + 1
    IN  Norm(cents, scale)

----------------------------------------------------------------------------
(* The arguments of a call *)

IntTerm(k) == [type |-> "int", halves |-> 2 * k]
FloatTerm(h) == [type |-> "float", halves |-> h]

Principals ==
    { Dec(0, 0), Dec(-5, 0), Dec(1111, -3), Dec(5, -2), Dec(10, -2),
      Dec(15, -2), Dec(15, -1), Dec(1, 1) }

Payments ==
    { Dec(-2, 0), Dec(0, 0), Dec(55, -3), Dec(5, -2), Dec(10, -2),
      Dec(5, 0), Dec(101, -1) }

Terms ==
    { IntTerm(k) : k \in -1 .. MaxTerm } \cup
    { FloatTerm(h) : h \in {-3, 0, 3, 4} }

InterestTypes == {"EFFECTIVE", "NOMINAL", "UNKNOWN"}

(* Annual rates whose monthly rate is an exact Decimal for the type. *)
Rates(interest_type) ==
    CASE interest_type = "NOMINAL" ->
             { Dec(-12, 0), Dec(0, 0), Dec(120, 0), Dec(600, 0), Dec(1200, 0) }
      [] interest_type = "EFFECTIVE" ->
             { Dec(-25, -1), Dec(0, 0), Dec(409500, 0) }
      [] OTHER ->
             { Dec(-12, 0), Dec(0, 0), Dec(120, 0) }

NoError == [type |-> "none", arg |-> "", why |-> ""]

Error(t, a, w) == [type |-> t, arg |-> a, why |-> w]

NoProjection ==
    [exists |-> FALSE, month_end_balance |-> <<>>,
     monthly_interest_charged |-> <<>>]

NoTable == [width |-> <<>>, lines |-> <<>>]

----------------------------------------------------------------------------
(* loan_balance: the closed form, evaluated as written. *)

(* The payment term is not reduced by 1 before the division. *)
loan_balance_NoMinusOne(principal, monthly_rate, months, monthly_payment) ==
    RSub(RMul(principal, RPow(RAdd(monthly_rate, One), months)),
         RDiv(RMul(monthly_payment, RPow(RAdd(monthly_rate, One), months)),
              monthly_rate))

loan_balance(principal, monthly_rate, months, monthly_payment) ==
    RSub(RMul(principal, RPow(RAdd(monthly_rate, One), months)),
         RDiv(RMul(monthly_payment,
                   RSub(RPow(RAdd(monthly_rate, One), months), One)),
              monthly_rate))

(* The Decimal operations of loan_balance that raise InvalidOperation:    *)
(* 0 ** 0, and the division of 0 by a monthly_rate of 0.                   *)
loan_balance_raises(monthly_rate, months) ==
    \/ RAdd(monthly_rate, One) = Zero /\ months = 0
    \/ monthly_rate = Zero

(* x ** (Dec(1) / Dec(12)) where Decimal returns the root exactly. *)
Root12(x) == RInt(CHOOSE y \in 1 .. MaxRoot : RPow(RInt(y), MONTHS_IN_ONE_YEAR) = x)

(* monthly_interest_rate: the rate, or the ValueError of the last line. *)
monthly_interest_rate(interest_rate_annual_percentage, interest_type) ==
    IF interest_type = "EFFECTIVE"
    THEN [raised |-> FALSE,
          value  |-> RSub(Root12(RAdd(One, RDiv(interest_rate_annual_percentage,
                                                RInt(100)))), One)]
    ELSE IF interest_type = "NOMINAL"
    THEN [raised |-> FALSE,
          value  |-> RDiv(interest_rate_annual_percentage,
                          RInt(MONTHS_IN_ONE_YEAR * 100))]
    ELSE [raised |-> TRUE, value |-> Zero]

----------------------------------------------------------------------------
(* loan_projection: the checks *)

(* The first of the four arguments that is < 0, or "". *)
FirstNegative(a) ==
    IF a.principal.coef < 0 THEN "principal"
    ELSE IF a.interest_rate_annual_percentage.coef < 0
         THEN "interest_rate_annual_percentage"
    ELSE IF a.term_months.halves < 0 THEN "term_months"
    ELSE IF a.monthly_payment.coef < 0 THEN "monthly_payment"
    ELSE ""

(* The first of term_months, principal that is == 0, or "". *)
FirstZero(a) ==
    IF a.term_months.halves = 0 THEN "term_months"
    ELSE IF a.principal.coef = 0 THEN "principal"
    ELSE ""

TooManyPlaces(x) == -x.exp > DECIMAL_PLACES_IO

(* The places of the payment are not checked. *)
FirstTooPrecise_PrincipalOnly(a) ==
    IF TooManyPlaces(a.principal) THEN "principal" ELSE ""

(* The first of principal, monthly_payment with too many places, or "". *)
FirstTooPrecise(a) ==
    IF TooManyPlaces(a.principal) THEN "principal"
    ELSE IF TooManyPlaces(a.monthly_payment) THEN "monthly_payment"
    ELSE ""

(* A float counts as an integer. *)
IsInt_AnyNumber(t) == t.type \in {"int", "float"}

(* isinstance(term_months, int) *)
IsInt(t) == t.type = "int"

(* The number of months range(term_months) runs over. *)
TermCount(t) == t.halves \div 2

Raise(e) ==
    /\ pc' = "raised"
    /\ err' = e
    /\ UNCHANGED <<args, raw, month_end_balance, monthly_interest_charged,
                   projection, table>>

Goto(l) ==
    /\ pc' = l
    /\ UNCHANGED <<args, err, raw, month_end_balance,
                   monthly_interest_charged, projection, table>>

CheckNegative ==
    /\ pc = "check_negative"
    /\ IF FirstNegative(args) # ""
       THEN Raise(Error("ValueError", FirstNegative(args), "negative"))
       ELSE Goto("check_zero")

(* The decimal places are not checked before the type of the term. *)
CheckZero_ThenType ==
    /\ pc = "check_zero"
    /\ IF FirstZero(args) # ""
       THEN Raise(Error("ValueError", FirstZero(args), "zero"))
       ELSE Goto("check_type")

CheckZero ==
    /\ pc = "check_zero"
    /\ IF FirstZero(args) # ""
       THEN Raise(Error("ValueError", FirstZero(args), "zero"))
       ELSE Goto("check_places")

CheckPlaces ==
    /\ pc = "check_places"
    /\ IF FirstTooPrecise(args) # ""
       THEN Raise(Error("ValueError", FirstTooPrecise(args), "places"))
       ELSE Goto("check_type")

CheckType ==
    /\ pc = "check_type"
    /\ IF ~IsInt(args.term_months)
       THEN Raise(Error("TypeError", "term_months", "type"))
       ELSE Goto("balances")

----------------------------------------------------------------------------
(* loan_projection: the computation *)

(* The month is counted from 0. *)
ZeroRateBalances_FromZero(principal, monthly_payment, term_months) ==
    [n \in 1 .. term_months |->
        RSub(principal, RMul(monthly_payment, RInt(n - 1)))]

ZeroRateBalances(principal, monthly_payment, term_months) ==
    [n \in 1 .. term_months |->
        RSub(principal, RMul(monthly_payment, RInt(n)))]

(* One month more than the term. *)
RateBalances_OneMore(principal, monthly_rate, monthly_payment, term_months) ==
    [n \in 1 .. term_months + 1 |->
        loan_balance(principal, monthly_rate, n, monthly_payment)]

RateBalances(principal, monthly_rate, monthly_payment, term_months) ==
    [n \in 1 .. term_months |->
        loan_balance(principal, monthly_rate, n, monthly_payment)]

Balances ==
    /\ pc = "balances"
    /\ LET principal == DecValue(args.principal)
           rate      == DecValue(args.interest_rate_annual_percentage)
           payment   == DecValue(args.monthly_payment)
           term      == TermCount(args.term_months)
           mr        == monthly_interest_rate(rate, args.interest_type)
       IN  IF rate = Zero
           THEN /\ raw' = ZeroRateBalances(principal, payment, term)
                /\ pc' = "truncate"
                /\ err' = err
           ELSE IF mr.raised
           THEN /\ raw' = raw
                /\ pc' = "raised"
                /\ err' = Error("ValueError", "interest_type", "unknown")
           ELSE /\ raw' = RateBalances(principal, mr.value, payment, term)
                /\ pc' = "truncate"
                /\ err' = err
    /\ UNCHANGED <<args, month_end_balance, monthly_interest_charged,
                   projection, table>>

(* The projection stops at the first balance < 0, not <= 0. *)
StopIndex_Negative(b, term_months) ==
    IF \E i \in 1 .. Len(b) : RLess(b[i], Zero)
    THEN CHOOSE i \in 1 .. Len(b) :
             /\ RLess(b[i], Zero)
             /\ \A j \in 1 .. i - 1 : ~RLess(b[j], Zero)
    ELSE term_months

(* next((i + 1 for i, bal in enumerate(b) if bal <= 0), term_months) *)
StopIndex(b, term_months) ==
    IF \E i \in 1 .. Len(b) : RLeq(b[i], Zero)
    THEN CHOOSE i \in 1 .. Len(b) :
             /\ RLeq(b[i], Zero)
             /\ \A j \in 1 .. i - 1 : ~RLeq(b[j], Zero)
    ELSE term_months

(* The balances are not cut. *)
Prefix_Whole(b, stop_index) == b

(* b[:stop_index] *)
Prefix(b, stop_index) ==
    SubSeq(b, 1, IF stop_index < Len(b) THEN stop_index ELSE Len(b))

Truncate ==
    /\ pc = "truncate"
    /\ month_end_balance' =
           Prefix(raw, StopIndex(raw, TermCount(args.term_months)))
    /\ pc' = "round"
    /\ UNCHANGED <<args, err, raw, monthly_interest_charged, projection,
                   table>>

RoundAll(b) == [i \in 1 .. Len(b) |-> round_decimal(b[i])]

Round ==
    /\ pc = "round"
    /\ month_end_balance' = RoundAll(month_end_balance)
    /\ pc' = "interest"
    /\ UNCHANGED <<args, err, raw, monthly_interest_charged, projection,
                   table>>

(* Every month starts from the principal. *)
MonthStartBalance_Principal(principal, b) ==
    [i \in 1 .. Len(b) |-> principal]

(* [principal] + month_end_balance[:-1] *)
MonthStartBalance(principal, b) ==
    <<principal>> \o SubSeq(b, 1, Len(b) - 1)

InterestCharged(principal, monthly_payment, b) ==
    LET start == MonthStartBalance(principal, b)
    IN  [i \in 1 .. Len(b) |-> RAdd(RSub(b[i], start[i]), monthly_payment)]

Interest ==
    /\ pc = "interest"
    /\ monthly_interest_charged' =
           InterestCharged(DecValue(args.principal),
                           DecValue(args.monthly_payment), month_end_balance)
    /\ pc' = "construct"
    /\ UNCHANGED <<args, err, raw, month_end_balance, projection, table>>

(* Only a longer balance tuple is refused. *)
PostInitOk_Shorter(b, i) == Len(b) <= Len(i)

(* LoanProjection.__post_init__: the pair is accepted. *)
PostInitOk(b, i) == Len(b) = Len(i)

Construct ==
    /\ pc = "construct"
    /\ IF PostInitOk(month_end_balance, monthly_interest_charged)
       THEN /\ projection' =
                   [exists |-> TRUE,
                    month_end_balance |-> month_end_balance,
                    monthly_interest_charged |-> monthly_interest_charged]
            /\ pc' = IF args.print_table THEN "print" ELSE "returned"
            /\ err' = err
       ELSE /\ projection' = projection
            /\ pc' = "raised"
            /\ err' = Error("ValueError", "LoanProjection", "unequal")
    /\ UNCHANGED <<args, raw, month_end_balance, monthly_interest_charged,
                   table>>

----------------------------------------------------------------------------
(* print_loan_projection *)

(* What the printer reads of a number: its sign, the count of its integer  *)
(* digits, its rank among the numbers of that count (abs orders by count,  *)
(* then rank), and the count of its fraction digits.                       *)
Shown(neg, nd, mag, frac) == [neg |-> neg, nd |-> nd, mag |-> mag, frac |-> frac]

RECURSIVE NumDigits(_)
NumDigits(n) == IF n < 10 THEN 1 ELSE 1 + NumDigits(n \div 10)

(* A month number. *)
ShownInt(i) == Shown(i < 0, NumDigits(Abs(i)), Abs(i), 0)

(* A Decimal with two places. *)
ShownDecimal(x) ==
    LET cents == x.n * (Pow10(DECIMAL_PLACES_IO) \div x.d)
    IN  Shown(cents < 0, NumDigits(Abs(cents) \div Pow10(DECIMAL_PLACES_IO)),
              Abs(cents), DECIMAL_PLACES_IO)

ShownAll(b) == [i \in 1 .. Len(b) |-> ShownDecimal(b[i])]

(* len(str(v)) *)
StrLen(v) ==
    (IF v.neg THEN 1 ELSE 0) + v.nd + (IF v.frac > 0 THEN 1 + v.frac ELSE 0)

AbsLess(v, w) == v.nd < w.nd \/ (v.nd = w.nd /\ v.mag < w.mag)

(* max(data, key=abs): the first element of the largest absolute value. *)
MaxByAbs(data) ==
    data[CHOOSE i \in 1 .. Len(data) :
             /\ \A j \in 1 .. Len(data) : ~AbsLess(data[i], data[j])
             /\ \A j \in 1 .. i - 1 : AbsLess(data[j], data[i])]

(* v["width"] *)
ColumnWidth(title_len, data) == Max(StrLen(MaxByAbs(data)), title_len)

(* The length of f"{x:>{width}}{spacer}" for an x of length len. *)
CellLen(len, width) == Max(len, width) + SpacerLen

Titles == <<MonthTitleLen, InterestTitleLen, BalanceTitleLen>>

print_loan_projection(p) ==
    LET n       == Len(p.month_end_balance)
        columns == << [i \in 1 .. n |-> ShownInt(i)],
                      p.monthly_interest_charged,
                      p.month_end_balance >>
        width   == [c \in 1 .. 3 |-> ColumnWidth(Titles[c], columns[c])]
        title   == CellLen(Titles[1], width[1]) + CellLen(Titles[2], width[2])
                   + CellLen(Titles[3], width[3])
        row(i)  == CellLen(StrLen(columns[1][i]), width[1])
                   + CellLen(StrLen(columns[2][i]), width[2])
                   + CellLen(StrLen(columns[3][i]), width[3])
    IN  [width |-> width,
         lines |-> <<title, title>> \o [i \in 1 .. n |-> row(i)]]

PrintTable ==
    /\ pc = "print"
    /\ table' = print_loan_projection(
                    [month_end_balance |->
                         ShownAll(projection.month_end_balance),
                     monthly_interest_charged |->
                         ShownAll(projection.monthly_interest_charged)])
    /\ pc' = "returned"
    /\ UNCHANGED <<args, err, raw, month_end_balance,
                   monthly_interest_charged, projection>>

----------------------------------------------------------------------------
(* A call of loan_projection *)

Init ==
    /\ \E p \in Principals, t \in Terms, m \in Payments,
          it \in InterestTypes, pt \in BOOLEAN :
          \E r \in Rates(it) :
              args = [principal |-> p,
                      interest_rate_annual_percentage |-> r,
                      term_months |-> t,
                      monthly_payment |-> m,
                      interest_type |-> it,
                      print_table |-> pt]
    /\ pc = "check_negative"
    /\ err = NoError
    /\ raw = <<>>
    /\ month_end_balance = <<>>
    /\ monthly_interest_charged = <<>>
    /\ projection = NoProjection
    /\ table = NoTable

Next ==
    \/ CheckNegative
    \/ CheckZero
    \/ CheckPlaces
    \/ CheckType
    \/ Balances
    \/ Truncate
    \/ Round
    \/ Interest
    \/ Construct
    \/ PrintTable

Spec == Init /\ [][Next]_vars

----------------------------------------------------------------------------
(* Constructing a LoanProjection from any two tuples, and printing it *)

BalanceValues ==
    { Shown(neg, nd, mag, DECIMAL_PLACES_IO) :
        neg \in BOOLEAN, nd \in {1, MaxDigits - 1, MaxDigits}, mag \in 1 .. 2 }

InterestValues ==
    { Shown(FALSE, 1, 1, DECIMAL_PLACES_IO),
      Shown(TRUE, MaxDigits, 1, DECIMAL_PLACES_IO) }

Tuples(S) == UNION { [1 .. n -> S] : n \in 0 .. MaxLen }

InitTuples ==
    /\ args = [month_end_balance |-> <<>>, monthly_interest_charged |-> <<>>]
    /\ pc = "new"
    /\ err = NoError
    /\ raw = <<>>
    /\ month_end_balance \in Tuples(BalanceValues)
    /\ monthly_interest_charged \in Tuples(InterestValues)
    /\ projection = NoProjection
    /\ table = NoTable

NewLoanProjection ==
    /\ pc = "new"
    /\ IF PostInitOk(month_end_balance, monthly_interest_charged)
       THEN /\ projection' =
                   [exists |-> TRUE,
                    month_end_balance |-> month_end_balance,
                    monthly_interest_charged |-> monthly_interest_charged]
            /\ pc' = "made"
            /\ err' = err
       ELSE /\ projection' = projection
            /\ pc' = "raised"
            /\ err' = Error("ValueError", "LoanProjection", "unequal")
    /\ UNCHANGED <<args, raw, month_end_balance, monthly_interest_charged,
                   table>>

PrintLoanProjection ==
    /\ pc = "made"
    /\ IF Len(projection.month_end_balance) = 0
       THEN /\ table' = table
            /\ pc' = "raised"
            /\ err' = Error("ValueError", "max", "empty")
       ELSE /\ table' = print_loan_projection(projection)
            /\ pc' = "printed"
            /\ err' = err
    /\ UNCHANGED <<args, raw, month_end_balance, monthly_interest_charged,
                   projection>>

NextTuples ==
    \/ NewLoanProjection
    \/ PrintLoanProjection

SpecTuples == InitTuples /\ [][NextTuples]_vars

----------------------------------------------------------------------------
(* Properties of loan_projection *)

Principal == DecValue(args.principal)

Payment == DecValue(args.monthly_payment)

AnnualRate == DecValue(args.interest_rate_annual_percentage)

TermMonths == TermCount(args.term_months)

(* The months of the term whose unrounded balance is <= 0. *)
PaidOffMonths == { i \in 1 .. Len(raw) : i <= TermMonths /\ raw[i].n <= 0 }

C2_Truncation ==
    projection.exists =>
        IF PaidOffMonths # {}
        THEN LET k == CHOOSE i \in PaidOffMonths :
                          \A j \in PaidOffMonths : i <= j
             IN  /\ Len(projection.month_end_balance) = k
                 /\ projection.month_end_balance[k].n <= 0
        ELSE Len(projection.month_end_balance) = TermMonths

(* A result cut short after its second month or later. *)
C2_Witness ==
    /\ projection.exists
    /\ Len(projection.month_end_balance) >= 2
    /\ Len(projection.month_end_balance) < TermMonths

(* C3: the two sequences of a result have the same length, and that length *)
(* is at most term_months.                                                 *)
C3_Lengths ==
    projection.exists =>
        /\ Len(projection.month_end_balance)
               = Len(projection.monthly_interest_charged)
        /\ Len(projection.month_end_balance) <= TermMonths

(* A result for a non-zero rate that runs the whole term. *)
C3_Witness ==
    /\ projection.exists
    /\ AnnualRate # Zero
    /\ Len(projection.month_end_balance) = TermMonths
    /\ Len(projection.monthly_interest_charged) = TermMonths

InvalidAmounts ==
    \/ args.principal.coef <= 0
    \/ args.interest_rate_annual_percentage.coef < 0
    \/ args.monthly_payment.coef < 0
    \/ -args.principal.exp > 2
    \/ -args.monthly_payment.exp > 2

(* C5: a call whose principal is <= 0, whose rate is < 0, whose payment is *)
(* < 0, or whose principal or payment is written with more than 2 places   *)
(* ends in a ValueError before any balance is computed and returns no      *)
(* result, whatever the term and the interest type are.                    *)
C5_InvalidAmountsRaise ==
    InvalidAmounts =>
        /\ pc \in {"check_negative", "check_zero", "check_places", "raised"}
        /\ pc = "raised" => err.type = "ValueError"
        /\ raw = <<>>
        /\ ~projection.exists

(* A payment with three places and a fractional term: ValueError. *)
C5_Witness ==
    /\ pc = "raised"
    /\ err = Error("ValueError", "monthly_payment", "places")
    /\ args.term_months.type = "float"

(* C6: a call whose interest type is neither EFFECTIVE nor NOMINAL         *)
(* computes no balance and returns no result, whatever the other           *)
(* arguments are, an annual rate of 0 included.                            *)
C6_UnknownTypeRaises ==
    args.interest_type \notin {"EFFECTIVE", "NOMINAL"} =>
        /\ raw = <<>>
        /\ ~projection.exists
        /\ pc # "returned"

NonIntegralTerm == args.term_months.halves % 2 = 1

(* The arguments other than the term are valid. *)
OtherArgumentsValid ==
    /\ args.principal.coef > 0
    /\ args.interest_rate_annual_percentage.coef >= 0
    /\ args.monthly_payment.coef >= 0
    /\ -args.principal.exp <= 2
    /\ -args.monthly_payment.exp <= 2

(* C7 as claimed: a call with a non-integral term ends in a TypeError,     *)
(* here already when every other argument is valid.                        *)
C7_NonIntegralTermTypeError ==
    (NonIntegralTerm /\ OtherArgumentsValid) =>
        /\ raw = <<>>
        /\ ~projection.exists
        /\ pc = "raised" => err.type = "TypeError"

(* The arguments pass every check that comes before the term's type. *)
EarlierChecksPass ==
    /\ args.principal.coef > 0
    /\ args.interest_rate_annual_percentage.coef >= 0
    /\ args.term_months.halves > 0
    /\ args.monthly_payment.coef >= 0
    /\ -args.principal.exp <= 2
    /\ -args.monthly_payment.exp <= 2

(* C7, amended: a call with a non-integral term computes no balance and    *)
(* returns no result; it ends in a TypeError when the arguments pass the   *)
(* earlier checks, and in the ValueError of an earlier check otherwise.    *)
C7_NonIntegralTermRaises ==
    NonIntegralTerm =>
        /\ raw = <<>>
        /\ ~projection.exists
        /\ pc # "balances"
        /\ pc = "raised" =>
               err.type = IF EarlierChecksPass THEN "TypeError"
                          ELSE "ValueError"

(* A term of 1.5 with otherwise valid arguments: TypeError. *)
C7_Witness ==
    /\ NonIntegralTerm
    /\ EarlierChecksPass
    /\ pc = "raised"
    /\ err.type = "TypeError"

(* C8 as claimed: every displayed balance but the last is > 0.             *)
C8_EarlierBalancesPositive ==
    projection.exists =>
        \A i \in 1 .. Len(projection.month_end_balance) - 1 :
            projection.month_end_balance[i].n > 0

(* C8, amended: every month but the last has an unrounded balance > 0 and  *)
(* a displayed balance >= 0.                                               *)
C8_EarlierBalancesNotPaidOff ==
    projection.exists =>
        \A i \in 1 .. Len(projection.month_end_balance) - 1 :
            /\ raw[i].n > 0
            /\ projection.month_end_balance[i].n >= 0

(* A month that displays 0.00 and is followed by another month. *)
C8_Witness ==
    /\ projection.exists
    /\ \E i \in 1 .. Len(projection.month_end_balance) - 1 :
           /\ projection.month_end_balance[i] = Zero
           /\ raw[i].n > 0

----------------------------------------------------------------------------
(* Properties of LoanProjection and print_loan_projection *)

(* C9: constructing a LoanProjection from two tuples yields an object      *)
(* exactly when the tuples have the same length, and raises a ValueError   *)
(* otherwise; the sequences of every object have the same length.          *)
C9_ConstructIffSameLength ==
    /\ pc # "new" =>
           ( projection.exists
             <=> Len(month_end_balance) = Len(monthly_interest_charged) )
    /\ (pc = "raised" /\ ~projection.exists) =>
           err = Error("ValueError", "LoanProjection", "unequal")
    /\ projection.exists =>
           /\ projection.month_end_balance = month_end_balance
           /\ projection.monthly_interest_charged = monthly_interest_charged
           /\ Len(projection.month_end_balance)
                  = Len(projection.monthly_interest_charged)

(* Tuples of unequal length were refused. *)
C9_Witness ==
    /\ pc = "raised"
    /\ ~projection.exists
    /\ Len(month_end_balance) > Len(monthly_interest_charged)
    /\ Len(monthly_interest_charged) > 0

(* The length of the widest value of a column. *)
WidestLen(data) ==
    CHOOSE w \in { StrLen(data[i]) : i \in 1 .. Len(data) } :
        \A i \in 1 .. Len(data) : StrLen(data[i]) <= w

(* C10: after printing a non-empty projection, each column is as wide as   *)
(* the longer of its title and its widest value, and every printed line    *)
(* has the same length.                                                    *)
C10_ColumnsFit ==
    pc = "printed" =>
        /\ table.width[1]
               = Max(MonthTitleLen,
                     NumDigits(Len(projection.month_end_balance)))
        /\ table.width[2]
               = Max(InterestTitleLen,
                     WidestLen(projection.monthly_interest_charged))
        /\ table.width[3]
               = Max(BalanceTitleLen, WidestLen(projection.month_end_balance))
        /\ \A i \in 1 .. Len(table.lines) : table.lines[i] = table.lines[1]

----------------------------------------------------------------------------
(* Calls of loan_balance for months 0, 1, 2, ... of one loan *)

BalancePrincipals == { RInt(-5), Zero, Norm(5, 100), Norm(15, 100), RInt(10) }

BalancePayments == { RInt(-2), Zero, Norm(5, 100), Norm(101, 10) }

MonthlyRates ==
    { RInt(-2), RInt(-1), Norm(-1, 2), Zero, Norm(1, 10), Norm(1, 2), One }

InitBalance ==
    /\ \E p \in BalancePrincipals, r \in MonthlyRates, m \in BalancePayments :
          args = [principal |-> p, monthly_rate |-> r, monthly_payment |-> m]
    /\ pc = "loan_balance"
    /\ err = NoError
    /\ raw = <<>>
    /\ month_end_balance = <<>>
    /\ monthly_interest_charged = <<>>
    /\ projection = NoProjection
    /\ table = NoTable

(* The call for the next number of months; raw keeps each call's outcome. *)
LoanBalanceCall ==
    /\ pc = "loan_balance"
    /\ Len(raw) <= MaxTerm
    /\ LET months == Len(raw)
       IN  IF loan_balance_raises(args.monthly_rate, months)
           THEN /\ raw' = Append(raw, [raised |-> TRUE, value |-> Zero])
                /\ err' = Error("InvalidOperation", "monthly_rate", "undefined")
           ELSE /\ raw' = Append(raw,
                              [raised |-> FALSE,
                               value  |-> loan_balance(args.principal,
                                                       args.monthly_rate,
                                                       months,
                                                       args.monthly_payment)])
                /\ err' = err
    /\ UNCHANGED <<args, pc, month_end_balance, monthly_interest_charged,
                   projection, table>>

NextBalance == LoanBalanceCall

SpecBalance == InitBalance /\ [][NextBalance]_vars

----------------------------------------------------------------------------
(* Properties of loan_balance *)

(* One month of the recurrence: the balance grows by the rate, then the   *)
(* payment is taken off.                                                   *)
RecurrenceStep(balance) ==
    RSub(RMul(balance, RAdd(One, args.monthly_rate)), args.monthly_payment)

(* C11 as claimed: for every monthly rate other than 0, the closed form    *)
(* returns the principal for 0 months, and its value for n + 1 months is   *)
(* its value for n months times (1 + rate) minus the payment.              *)
C11_ClosedFormIsRecurrence ==
    args.monthly_rate # Zero =>
        /\ \A i \in 1 .. Len(raw) : ~raw[i].raised
        /\ Len(raw) >= 1 => raw[1].value = args.principal
        /\ \A i \in 1 .. Len(raw) - 1 :
               raw[i + 1].value = RecurrenceStep(raw[i].value)

(* C11, amended: the same for every monthly rate other than 0 and -1; at   *)
(* a rate of -1 the closed form raises for 0 months (0 ** 0) and obeys     *)
(* the recurrence from 1 month on.                                         *)
C11_ClosedFormIsRecurrenceWhereDefined ==
    args.monthly_rate # Zero =>
        /\ \A i \in 1 .. Len(raw) :
               raw[i].raised <=> (args.monthly_rate = RInt(-1) /\ i = 1)
        /\ (Len(raw) >= 1 /\ args.monthly_rate # RInt(-1)) =>
               raw[1].value = args.principal
        /\ \A i \in 1 .. Len(raw) - 1 :
               ~raw[i].raised =>
                   raw[i + 1].value = RecurrenceStep(raw[i].value)

(* The closed form evaluated for months 0 to 3 of a loan with a payment    *)
(* and a fractional rate.                                                  *)
C11_Witness ==
    /\ Len(raw) >= 4
    /\ args.monthly_rate = Norm(1, 10)
    /\ args.monthly_payment = Norm(5, 100)
    /\ args.principal = Norm(15, 100)
    /\ \A i \in 1 .. Len(raw) : ~raw[i].raised

----------------------------------------------------------------------------
(* The order of the checks of loan_projection *)

(* An argument is negative, or the term or the principal is zero. *)
SignViolated ==
    \/ args.principal.coef < 0
    \/ args.interest_rate_annual_percentage.coef < 0
    \/ args.term_months.halves < 0
    \/ args.monthly_payment.coef < 0
    \/ args.term_months.halves = 0
    \/ args.principal.coef = 0

(* The principal or the payment is written with more than 2 places. *)
PlacesViolated ==
    \/ -args.principal.exp > 2
    \/ -args.monthly_payment.exp > 2

(* The term is not an integer. *)
IntegralityViolated == args.term_months.type # "int"

(* C12: a call that violates a sign, decimal-place or integrality          *)
(* constraint computes no balance and returns no result, and the error it  *)
(* ends in is that of the first violated group in the order: signs and     *)
(* zeros (ValueError), then decimal places (ValueError), then the          *)
(* integrality of the term (TypeError).                                    *)
C12_FirstViolationReported ==
    (SignViolated \/ PlacesViolated \/ IntegralityViolated) =>
        /\ raw = <<>>
        /\ ~projection.exists
        /\ pc \in {"check_negative", "check_zero", "check_places",
                   "check_type", "raised"}
        /\ pc = "raised" =>
               IF SignViolated
               THEN err.type = "ValueError" /\ err.why \in {"negative", "zero"}
               ELSE IF PlacesViolated
               THEN err.type = "ValueError" /\ err.why = "places"
               ELSE err.type = "TypeError" /\ err.why = "type"

(* A fractional term together with a payment of three places: the places   *)
(* are reported.                                                           *)
C12_Witness ==
    /\ pc = "raised"
    /\ args.term_months.halves % 2 = 1
    /\ ~SignViolated
    /\ -args.monthly_payment.exp > 2
    /\ err = Error("ValueError", "monthly_payment", "places")

====
